---- MODULE Spec2Model ----
(***************************************************************************)
(* Incremental retail ETL pipeline (src/etl/incremental_etl_pipeline.py):  *)
(* one orchestrator process loads a fixed CSV extract into a warehouse in  *)
(* fixed-size batches.  The warehouse tables (staging, the three dimension *)
(* aggregates, the transactions fact table, the execution log) are the     *)
(* state; every method of IncrementalETLPipeline is an action or an        *)
(* operator.  Warehouse round trips may raise (execute_sql re-raises,      *)
(* src/config/snowflake_config.py:103-105); each try/except of the         *)
(* pipeline is modelled with the failure as a nondeterministic input.      *)
(***************************************************************************)
EXTENDS Integers, Sequences, FiniteSets, TLC

VARIABLES
    source,          \* the CSV extract: sequence of raw rows (read-only)
    batch_size,      \* self.batch_size
    staging,         \* RAW_DATA.ONLINE_RETAIL_STAGING, rows in insertion order
    products,        \* PROCESSED_DATA.PRODUCTS, keyed by stock code
    customers,       \* PROCESSED_DATA.CUSTOMERS, keyed by customer id
    countries,       \* PROCESSED_DATA.COUNTRIES, keyed by country
    transactions,    \* PROCESSED_DATA.TRANSACTIONS, rows in insertion order
    log,             \* METADATA.PIPELINE_EXECUTION_LOG, rows in insertion order
    pc,              \* position of the orchestrator inside run_incremental_batch
    batch_number,    \* locals of run_incremental_batch
    start_row,
    end_row,
    before_summary,
    loaded_count,
    pending,         \* arguments of the log_batch_end call about to be made
    result,          \* value returned by the last run_incremental_batch
    report,          \* status printed by the last invocation with --status
    inst,            \* orchestrator instances running one batch number at
                     \* the same time: position, frame and count of each
    today,           \* CURRENT_DATE() of the warehouse
    faults,          \* warehouse calls that have failed so far
    att,             \* history of the current attempt (observation only)
    hist             \* history of the finished attempts (observation only)

vars == <<source, batch_size, staging, products, customers, countries,
          transactions, log, pc, batch_number, start_row, end_row,
          before_summary, loaded_count, pending, result, report, inst,
          today, faults, att, hist>>

(***************************************************************************)
(* Bounds of the model.                                                    *)
(***************************************************************************)
BatchSize == 2      \* rows per batch window (self.batch_size, scaled down)
NumRows == 3        \* data rows in the CSV extract
MaxEvents == 3      \* invocations of run_incremental_batch plus failing
                    \* warehouse calls in one behaviour
StartDay == 6       \* the day of the runs; invoice dates lie before it

\* Explicit batch numbers range over 1..MaxBatch: every window of the extract
\* and one window past its end.
SpendMargin == 10    \* cumulative spends are taken up to this far from a
                     \* segment threshold
NumInstances == 2    \* orchestrator instances started at the same time
MaxBatch == (NumRows \div BatchSize) + 2

(***************************************************************************)
(* SQL NULL / pandas NaN.  A nullable value is <<>> (NULL) or <<v>>.       *)
(***************************************************************************)
NULL == <<>>
Some(v) == <<v>>
IsNull(x) == x = NULL
Val(x) == x[1]

Max2(a, b) == IF a >= b THEN a ELSE b
Min2(a, b) == IF a <= b THEN a ELSE b

(***************************************************************************)
(* The raw rows the extract is drawn from, as the frame holds them after   *)
(* the type coercions of load_batch_to_staging (lines 114-117): a sale, a  *)
(* zero-quantity row, a guest sale (no customer id), a return and a row    *)
(* with a missing stock code.  The extract lists its rows in invoice       *)
(* order.                                                                  *)
(***************************************************************************)
RawRow(inv, stock, qty, price, cust, country, date) ==
    [invoice_no |-> inv, stock_code |-> stock, quantity |-> qty,
     unit_price |-> price, customer_id |-> cust, country |-> country,
     invoice_date |-> date]

Invoice(k) ==
    CASE k = 1 -> RawRow(Some("I1"), Some("P1"), Some(2), Some(3), Some(1), "UK", Some(1))
      [] k = 2 -> RawRow(Some("I2"), Some("P1"), Some(0), Some(3), Some(1), "UK", Some(2))
      [] k = 3 -> RawRow(Some("I3"), Some("P2"), Some(1), Some(5), NULL, "UK", Some(3))
      [] k = 4 -> RawRow(Some("I4"), Some("P1"), Some(-1), Some(3), Some(1), "FR", Some(4))
      [] k = 5 -> RawRow(Some("I5"), NULL, Some(1), Some(5), Some(1), "FR", Some(5))

Catalog == 1..5

Sources ==
    { [i \in 1..NumRows |-> Invoice(f[i])] :
        f \in { g \in [1..NumRows -> Catalog] :
                  \A i \in 1..(NumRows - 1) : g[i] <= g[i + 1] } }

(***************************************************************************)
(* Batch window resolution (run_incremental_batch, lines 424-429).         *)
(***************************************************************************)
SeqMax(vals, dflt) ==
    IF vals = <<>> THEN dflt
    ELSE LET m == CHOOSE i \in 1..Len(vals) : \A j \in 1..Len(vals) : vals[i] >= vals[j]
         IN vals[m]

RowNumberOf(r) == r.row_number_in_file

StagingRowCount(stg) == Len(stg)

\* get_last_processed_row: MAX(ROW_NUMBER_IN_FILE), 0 on an empty table.
get_last_processed_row(stg) == SeqMax([i \in 1..Len(stg) |-> RowNumberOf(stg[i])], 0)

AutoBatchNumber(stg, B) == (get_last_processed_row(stg) \div B) + 1
StartRowZeroBased(n, B) == (n - 1) * B
StartRow(n, B) == ((n - 1) * B) + 1
EndRow(n, B) == n * B

(***************************************************************************)
(* Source reader: pd.read_csv(skiprows=range(1, start_row), nrows=...)     *)
(* (line 93) yields the data rows start_row..end_row that exist.           *)
(***************************************************************************)
ReadCsv(src, sr, er) ==
    LET lo == Max2(sr, 1)
        hi == Min2(Len(src), lo + (er - sr))
    IN IF hi < lo THEN <<>> ELSE SubSeq(src, lo, hi)

(***************************************************************************)
(* Record sanitizer (load_batch_to_staging, lines 119-134).                *)
(***************************************************************************)
ValidRowKeepingZeroQuantity(r) ==
    /\ ~IsNull(r.invoice_no)
    /\ ~IsNull(r.stock_code)
    /\ ~IsNull(r.invoice_date)
    /\ ~IsNull(r.quantity)
    /\ ~IsNull(r.unit_price)

\* dropna(subset=[...]) followed by df[df['QUANTITY'] != 0]
ValidRow(r) ==
    /\ ~IsNull(r.invoice_no)
    /\ ~IsNull(r.stock_code)
    /\ ~IsNull(r.invoice_date)
    /\ ~IsNull(r.quantity)
    /\ ~IsNull(r.unit_price)
    /\ Val(r.quantity) # 0

DataSource(n) == "CSV_BATCH_" \o ToString(n)
FileName(n) == "online_retail_batch_" \o ToString(n) \o ".csv"

\* ROW_NUMBER_IN_FILE = range(start_row, start_row + len(df)): the ordinal
\* is the position in the cleaned frame, counted from start_row (line 130).
RowNumberInFile(sr, i) == sr + (i - 1)

StagedRow(r, n, ordinal) ==
    [invoice_no |-> r.invoice_no, stock_code |-> r.stock_code,
     quantity |-> r.quantity, unit_price |-> r.unit_price,
     customer_id |-> r.customer_id, country |-> r.country,
     invoice_date |-> r.invoice_date,
     row_number_in_file |-> ordinal,
     file_name |-> FileName(n),
     data_source |-> DataSource(n),
     has_missing_customer_id |-> IsNull(r.customer_id),
     is_return |-> Val(r.quantity) < 0,
     total_amount |-> Val(r.quantity) * Val(r.unit_price)]

Sanitize(raw, n, sr) ==
    LET clean == SelectSeq(raw, ValidRow)
    IN [i \in 1..Len(clean) |-> StagedRow(clean[i], n, RowNumberInFile(sr, i))]

(***************************************************************************)
(* Dedup filter (lines 136-155).  The key is the string                    *)
(* INVOICE_NO || '_' || STOCK_CODE || '_' || ROW_NUMBER_IN_FILE.           *)
(***************************************************************************)
TransactionKey(r) ==
    Val(r.invoice_no) \o "_" \o Val(r.stock_code) \o "_"
        \o ToString(r.row_number_in_file)

ExistingKeys(stg) == { TransactionKey(stg[i]) : i \in 1..Len(stg) }

NoDedupFilter(df, stg) == df

DedupFilter(df, stg) ==
    IF stg # <<>>
    THEN LET keys == ExistingKeys(stg)
             Fresh(r) == TransactionKey(r) \notin keys
         IN SelectSeq(df, Fresh)
    ELSE df

\* INSERT INTO <table> ...: the statement adds rows and touches no other.
ReplaceRows(table, rows) == rows

AppendRows(table, rows) == table \o rows

(***************************************************************************)
(* Staging writer (lines 161-206): one INSERT per row; a failed INSERT is  *)
(* logged and skipped.  fail is the set of positions whose INSERT raises.  *)
(***************************************************************************)
RECURSIVE KeepOk(_, _, _)
KeepOk(df, fail, i) ==
    IF i > Len(df) THEN <<>>
    ELSE (IF i \in fail THEN <<>> ELSE <<df[i]>>) \o KeepOk(df, fail, i + 1)

InsertRowsUntilFailure(df, fail) ==
    LET bad == fail \cap (1..Len(df))
    IN IF bad = {} THEN df
       ELSE SubSeq(df, 1, (CHOOSE k \in bad : \A j \in bad : k <= j) - 1)

InsertRows(df, fail) == KeepOk(df, fail, 1)

\* The frame that reaches the insert loop for batch n.
Candidates(src, stg, n, B) ==
    DedupFilter(Sanitize(ReadCsv(src, StartRow(n, B), EndRow(n, B)), n,
                         StartRow(n, B)), stg)

(***************************************************************************)
(* Execution log (log_batch_start, log_batch_end).                         *)
(***************************************************************************)
ExecutionType(n) == "BATCH_" \o ToString(n)

\* Column defaults of a new log row: ROWS_INSERTED and ERROR_MESSAGE are not
\* among the inserted columns; ROWS_INSERTED starts at 0.
DefaultRowsInserted == Some(0)

\* INSERT ... VALUES (..., 'BATCH_<n>', 'RUNNING', ..., end_row - start_row + 1, ...)
\* (lines 46-54).  START_TIME is the time of the insert.
log_batch_start(lg, n, sr, er) ==
    Append(lg, [execution_type |-> ExecutionType(n),
                status |-> "RUNNING",
                start_time |-> Len(lg) + 1,
                rows_processed |-> (er - sr) + 1,
                rows_inserted |-> DefaultRowsInserted,
                error_message |-> NULL])

StartTimeOf(e) == e.start_time

EarliestStartTime(lg, n) ==
    LET OfType(e) == e.execution_type = ExecutionType(n)
        mine == SelectSeq(lg, OfType)
    IN IF mine = <<>> THEN NULL
       ELSE Some(0 - SeqMax([i \in 1..Len(mine) |-> 0 - StartTimeOf(mine[i])], 0))

\* SELECT MAX(START_TIME) ... WHERE EXECUTION_TYPE = 'BATCH_<n>' (lines 73-77)
LatestStartTime(lg, n) ==
    LET OfType(e) == e.execution_type = ExecutionType(n)
        mine == SelectSeq(lg, OfType)
    IN IF mine = <<>> THEN NULL ELSE Some(SeqMax([i \in 1..Len(mine) |-> StartTimeOf(mine[i])], 0))

\* The WHERE clause of the UPDATE (lines 70-77).
LogEndMatchesAnyStatus(lg, e, n) ==
    /\ e.execution_type = ExecutionType(n)
    /\ Some(e.start_time) = LatestStartTime(lg, n)

LogEndMatches(lg, e, n) ==
    /\ e.status = "RUNNING"
    /\ e.execution_type = ExecutionType(n)
    /\ Some(e.start_time) = LatestStartTime(lg, n)

\* UPDATE ... SET STATUS, ROWS_INSERTED [, ERROR_MESSAGE] (lines 62-79); the
\* error clause is there only for a non-empty message.
log_batch_end(lg, n, status, rows_loaded, error_msg) ==
    [i \in 1..Len(lg) |->
        IF LogEndMatches(lg, lg[i], n)
        THEN [lg[i] EXCEPT !.status = status,
                           !.rows_inserted = Some(rows_loaded),
                           !.error_message =
                               IF IsNull(error_msg) \/ error_msg = Some("")
                               THEN @ ELSE error_msg]
        ELSE lg[i]]

(***************************************************************************)
(* Aggregation helpers: SQL aggregates over a sequence of rows.  AVG is    *)
(* kept exact as a reduced fraction [num, den].                            *)
(***************************************************************************)
RECURSIVE SumInts(_)
SumInts(s) == IF s = <<>> THEN 0 ELSE Head(s) + SumInts(Tail(s))

RECURSIVE Gcd(_, _)
Gcd(a, b) == IF b = 0 THEN a ELSE Gcd(b, a % b)

Abs(a) == IF a < 0 THEN 0 - a ELSE a

Frac(n, d) ==
    LET g == Gcd(Abs(n), d)
    IN [num |-> n \div g, den |-> d \div g]

\* (a + b) / 2
FracMean2(a, b) == Frac((a.num * b.den) + (b.num * a.den), 2 * a.den * b.den)

SetMin(S) == CHOOSE x \in S : \A y \in S : x <= y
SetMax(S) == CHOOSE x \in S : \A y \in S : x >= y

\* MIN / MAX / AVG ignore NULL inputs and are NULL over no input.
SqlMin(S) == IF S = {} THEN NULL ELSE Some(SetMin(S))
SqlMax(S) == IF S = {} THEN NULL ELSE Some(SetMax(S))
SqlAvg(s) == IF s = <<>> THEN NULL ELSE Some(Frac(SumInts(s), Len(s)))

\* LEAST / GREATEST and arithmetic return NULL when an argument is NULL.
Least(a, b) == IF IsNull(a) \/ IsNull(b) THEN NULL ELSE Some(Min2(Val(a), Val(b)))
Greatest(a, b) == IF IsNull(a) \/ IsNull(b) THEN NULL ELSE Some(Max2(Val(a), Val(b)))
Mean2(a, b) == IF IsNull(a) \/ IsNull(b) THEN NULL ELSE Some(FracMean2(Val(a), Val(b)))

\* DATA_SOURCE LIKE '%BATCH_%': "BATCH", one more character, then anything.
LikeBatch(ds) ==
    \E i \in 1..Len(ds) : i + 5 <= Len(ds) /\ SubSeq(ds, i, i + 4) = "BATCH"

IsSale(r) == Val(r.quantity) > 0

Range(s) == { s[i] : i \in 1..Len(s) }

(***************************************************************************)
(* Dimension aggregator (update_dimensions_incremental).  Each MERGE reads *)
(* its source rows from staging; batch_number is a parameter of the method *)
(* but the WHERE clauses select on DATA_SOURCE LIKE '%BATCH_%'.            *)
(***************************************************************************)
DimensionScope(r, n) == LikeBatch(r.data_source)

\* Products: the USING subquery for one stock code (lines 221-235).
ProductDelta(stg, n, c) ==
    LET InGroup(r) == /\ DimensionScope(r, n)
                      /\ ~IsNull(r.stock_code)
                      /\ Val(r.stock_code) = c
        rows == SelectSeq(stg, InGroup)
        sales == SelectSeq(rows, IsSale)
    IN [new_quantity_sold |->
            SumInts([i \in 1..Len(sales) |-> Val(sales[i].quantity)]),
        new_revenue |->
            SumInts([i \in 1..Len(sales) |-> sales[i].total_amount]),
        avg_unit_price |->
            SqlAvg([i \in 1..Len(sales) |-> Val(sales[i].unit_price)]),
        min_unit_price |-> SqlMin({ Val(r.unit_price) : r \in Range(sales) }),
        max_unit_price |-> SqlMax({ Val(r.unit_price) : r \in Range(sales) }),
        first_sale_date |-> SqlMin({ Val(r.invoice_date) : r \in Range(sales) }),
        last_sale_date |-> SqlMax({ Val(r.invoice_date) : r \in Range(sales) }),
        new_unique_customers |->
            Cardinality({ r.customer_id : r \in
                            { q \in Range(sales) : ~IsNull(q.customer_id) } })]

ProductKeys(stg, n) ==
    { Val(stg[i].stock_code) : i \in
        { j \in 1..Len(stg) : /\ DimensionScope(stg[j], n)
                              /\ ~IsNull(stg[j].stock_code) } }

\* WHEN MATCHED THEN UPDATE (lines 238-248)
ProductMatched(t, d, now) ==
    [total_quantity_sold |-> t.total_quantity_sold + d.new_quantity_sold,
     total_revenue |-> t.total_revenue + d.new_revenue,
     average_unit_price |-> Mean2(t.average_unit_price, d.avg_unit_price),
     min_unit_price |-> Least(t.min_unit_price, d.min_unit_price),
     max_unit_price |-> Greatest(t.max_unit_price, d.max_unit_price),
     first_sale_date |-> Least(t.first_sale_date, d.first_sale_date),
     last_sale_date |-> Greatest(t.last_sale_date, d.last_sale_date),
     unique_customers |-> t.unique_customers + d.new_unique_customers,
     updated_at |-> Some(now)]

\* WHEN NOT MATCHED THEN INSERT (lines 249-256); UPDATED_AT is not among the
\* inserted columns.
ProductInserted(d, dflt) ==
    [total_quantity_sold |-> d.new_quantity_sold,
     total_revenue |-> d.new_revenue,
     average_unit_price |-> d.avg_unit_price,
     min_unit_price |-> d.min_unit_price,
     max_unit_price |-> d.max_unit_price,
     first_sale_date |-> d.first_sale_date,
     last_sale_date |-> d.last_sale_date,
     unique_customers |-> d.new_unique_customers,
     updated_at |-> dflt]

\* Column defaults of rows a MERGE inserts: UPDATED_AT is stamped with the
\* time of the insert, CUSTOMER_SEGMENT and DAYS_SINCE_LAST_PURCHASE are
\* unset until the segmentation pass.
InsertedUpdatedAt(now) == Some(now)

MergeProducts(target, stg, n, now) ==
    LET keys == ProductKeys(stg, n)
    IN [c \in (DOMAIN target) \cup keys |->
          IF c \notin keys THEN target[c]
          ELSE IF c \in DOMAIN target
               THEN ProductMatched(target[c], ProductDelta(stg, n, c), now)
               ELSE ProductInserted(ProductDelta(stg, n, c),
                                    InsertedUpdatedAt(now))]

\* MAX(COUNTRY): the greatest name in lexicographic order.
RECURSIVE StrLess(_, _)
CharRank(c) ==
    LET abc == "ABCDEFGHIJKLMNOPQRSTUVWXYZ"
    IN CHOOSE i \in 1..Len(abc) : SubSeq(abc, i, i) = c
StrLess(a, b) ==
    IF a = "" THEN b # ""
    ELSE IF b = "" THEN FALSE
    ELSE LET x == CharRank(SubSeq(a, 1, 1))
             y == CharRank(SubSeq(b, 1, 1))
         IN IF x # y THEN x < y
            ELSE StrLess(SubSeq(a, 2, Len(a)), SubSeq(b, 2, Len(b)))
StrMax(S) == CHOOSE x \in S : \A y \in S : y = x \/ StrLess(y, x)

\* Customers: the USING subquery for one customer id (lines 265-277).
CustomerDelta(stg, n, c) ==
    LET InGroup(r) == /\ DimensionScope(r, n)
                      /\ ~IsNull(r.customer_id)
                      /\ IsSale(r)
                      /\ Val(r.customer_id) = c
        rows == SelectSeq(stg, InGroup)
    IN [country |-> StrMax({ r.country : r \in Range(rows) }),
        first_purchase_date |-> SqlMin({ Val(r.invoice_date) : r \in Range(rows) }),
        last_purchase_date |-> SqlMax({ Val(r.invoice_date) : r \in Range(rows) }),
        new_orders |-> Cardinality({ r.invoice_no : r \in Range(rows) }),
        new_items_purchased |->
            SumInts([i \in 1..Len(rows) |-> Val(rows[i].quantity)]),
        new_amount_spent |->
            SumInts([i \in 1..Len(rows) |-> rows[i].total_amount]),
        avg_order_value |->
            SqlAvg([i \in 1..Len(rows) |-> rows[i].total_amount])]

CustomerKeys(stg, n) ==
    { Val(stg[i].customer_id) : i \in
        { j \in 1..Len(stg) : /\ DimensionScope(stg[j], n)
                              /\ ~IsNull(stg[j].customer_id)
                              /\ IsSale(stg[j]) } }

\* WHEN MATCHED THEN UPDATE (lines 280-288)
CustomerMatched(t, d, now) ==
    [t EXCEPT
       !.country = d.country,
       !.first_purchase_date = Least(@, d.first_purchase_date),
       !.last_purchase_date = Greatest(@, d.last_purchase_date),
       !.total_orders = @ + d.new_orders,
       !.total_items_purchased = @ + d.new_items_purchased,
       !.total_amount_spent = @ + d.new_amount_spent,
       !.average_order_value = Mean2(@, d.avg_order_value),
       !.updated_at = Some(now)]

\* WHEN NOT MATCHED THEN INSERT (lines 289-294)
CustomerInserted(d, dflt) ==
    [country |-> d.country,
     first_purchase_date |-> d.first_purchase_date,
     last_purchase_date |-> d.last_purchase_date,
     total_orders |-> d.new_orders,
     total_items_purchased |-> d.new_items_purchased,
     total_amount_spent |-> d.new_amount_spent,
     average_order_value |-> d.avg_order_value,
     customer_segment |-> NULL,
     days_since_last_purchase |-> NULL,
     updated_at |-> dflt]

MergeCustomers(target, stg, n, now) ==
    LET keys == CustomerKeys(stg, n)
    IN [c \in (DOMAIN target) \cup keys |->
          IF c \notin keys THEN target[c]
          ELSE IF c \in DOMAIN target
               THEN CustomerMatched(target[c], CustomerDelta(stg, n, c), now)
               ELSE CustomerInserted(CustomerDelta(stg, n, c),
                                     InsertedUpdatedAt(now))]

\* Segmentation pass (lines 299-310).
VipSpend == 10000
HighValueSpend == 5000
MediumValueSpend == 1000

CustomerSegmentExclusive(total_amount_spent) ==
    IF total_amount_spent > VipSpend THEN "VIP"
    ELSE IF total_amount_spent > HighValueSpend THEN "HIGH_VALUE"
    ELSE IF total_amount_spent > MediumValueSpend THEN "MEDIUM_VALUE"
    ELSE IF total_amount_spent > 0 THEN "LOW_VALUE"
    ELSE "NEW"

\* CASE WHEN TOTAL_AMOUNT_SPENT >= ... (lines 301-307)
CustomerSegment(total_amount_spent) ==
    IF total_amount_spent >= VipSpend THEN "VIP"
    ELSE IF total_amount_spent >= HighValueSpend THEN "HIGH_VALUE"
    ELSE IF total_amount_spent >= MediumValueSpend THEN "MEDIUM_VALUE"
    ELSE IF total_amount_spent > 0 THEN "LOW_VALUE"
    ELSE "NEW"

DateDiff(from, to) == IF IsNull(from) THEN NULL ELSE Some(to - Val(from))

UpdateSegments(target, now) ==
    [c \in DOMAIN target |->
        IF ~IsNull(target[c].updated_at) /\ Val(target[c].updated_at) >= now
        THEN [target[c] EXCEPT
                !.customer_segment = Some(CustomerSegment(target[c].total_amount_spent)),
                !.days_since_last_purchase =
                    DateDiff(target[c].last_purchase_date, now)]
        ELSE target[c]]

CountryDeltaKnownCustomers(stg, n, c) ==
    LET InGroup(r) == /\ DimensionScope(r, n)
                      /\ r.country = c
                      /\ ~IsNull(r.customer_id)
        rows == SelectSeq(stg, InGroup)
        sales == SelectSeq(rows, IsSale)
    IN [new_customers |->
            Cardinality({ r.customer_id : r \in Range(rows) }),
        new_orders |-> Cardinality({ r.invoice_no : r \in Range(rows) }),
        new_revenue |->
            SumInts([i \in 1..Len(sales) |-> sales[i].total_amount]),
        first_order_date |-> SqlMin({ Val(r.invoice_date) : r \in Range(rows) }),
        last_order_date |-> SqlMax({ Val(r.invoice_date) : r \in Range(rows) })]

\* Countries: the USING subquery for one country (lines 318-328).
CountryDelta(stg, n, c) ==
    LET InGroup(r) == DimensionScope(r, n) /\ r.country = c
        rows == SelectSeq(stg, InGroup)
        sales == SelectSeq(rows, IsSale)
    IN [new_customers |->
            Cardinality({ r.customer_id : r \in
                            { q \in Range(rows) : ~IsNull(q.customer_id) } }),
        new_orders |-> Cardinality({ r.invoice_no : r \in Range(rows) }),
        new_revenue |->
            SumInts([i \in 1..Len(sales) |-> sales[i].total_amount]),
        first_order_date |-> SqlMin({ Val(r.invoice_date) : r \in Range(rows) }),
        last_order_date |-> SqlMax({ Val(r.invoice_date) : r \in Range(rows) })]

CountryKeys(stg, n) ==
    { stg[i].country : i \in { j \in 1..Len(stg) : DimensionScope(stg[j], n) } }

\* WHEN MATCHED THEN UPDATE (lines 331-337)
CountryMatched(t, d, now) ==
    [total_customers |-> t.total_customers + d.new_customers,
     total_orders |-> t.total_orders + d.new_orders,
     total_revenue |-> t.total_revenue + d.new_revenue,
     first_order_date |-> Least(t.first_order_date, d.first_order_date),
     last_order_date |-> Greatest(t.last_order_date, d.last_order_date),
     updated_at |-> Some(now)]

\* WHEN NOT MATCHED THEN INSERT (lines 338-343)
CountryInserted(d, dflt) ==
    [total_customers |-> d.new_customers,
     total_orders |-> d.new_orders,
     total_revenue |-> d.new_revenue,
     first_order_date |-> d.first_order_date,
     last_order_date |-> d.last_order_date,
     updated_at |-> dflt]

MergeCountries(target, stg, n, now) ==
    LET keys == CountryKeys(stg, n)
    IN [c \in (DOMAIN target) \cup keys |->
          IF c \notin keys THEN target[c]
          ELSE IF c \in DOMAIN target
               THEN CountryMatched(target[c], CountryDelta(stg, n, c), now)
               ELSE CountryInserted(CountryDelta(stg, n, c),
                                    InsertedUpdatedAt(now))]

(***************************************************************************)
(* Fact publisher (append_to_transactions_fact, lines 357-393): INSERT ... *)
(* SELECT of every staging row tagged DATA_SOURCE = 'CSV_BATCH_<n>' that   *)
(* passes the validity predicate.  The calendar parts (year, month, day of *)
(* week) are functions of INVOICE_DATE and are not carried.                *)
(***************************************************************************)
FactScope(r, n) ==
    /\ r.data_source = DataSource(n)
    /\ ~IsNull(r.invoice_no)
    /\ ~IsNull(r.stock_code)
    /\ ~IsNull(r.quantity)
    /\ ~IsNull(r.unit_price)
    /\ Val(r.quantity) # 0

TransactionType(q) ==
    IF Val(q) > 0 THEN "SALE" ELSE IF Val(q) < 0 THEN "RETURN" ELSE "UNKNOWN"

FactRow(r) ==
    [transaction_id |-> TransactionKey(r),
     invoice_no |-> r.invoice_no, stock_code |-> r.stock_code,
     customer_id |-> r.customer_id, quantity |-> r.quantity,
     unit_price |-> r.unit_price, total_amount |-> r.total_amount,
     invoice_date |-> r.invoice_date, country |-> r.country,
     transaction_type |-> TransactionType(r.quantity),
     is_guest_purchase |-> IsNull(r.customer_id),
     source_file |-> r.file_name]

FactRows(stg, n) ==
    LET InScope(r) == FactScope(r, n)
        rows == SelectSeq(stg, InScope)
    IN [i \in 1..Len(rows) |-> FactRow(rows[i])]

\* get_data_summary (lines 400-418): the five row counts.
get_data_summary(stg, tx, prod, cust, ctry) ==
    [staging |-> Len(stg), transactions |-> Len(tx),
     products |-> Cardinality(DOMAIN prod),
     customers |-> Cardinality(DOMAIN cust),
     countries |-> Cardinality(DOMAIN ctry)]

(***************************************************************************)
(* The orchestrator: run_incremental_batch (lines 420-477), one action per *)
(* step.  Every warehouse call that the code guards with try/except takes  *)
(* its outcome as an input.                                                *)
(***************************************************************************)
Tables == <<staging, products, customers, countries, transactions>>
Locals == <<batch_number, start_row, end_row, before_summary, loaded_count>>
Env == <<source, batch_size, today, inst>>

Fault(b) == IF b THEN 1 ELSE 0

\* Invocations begun and warehouse calls failed so far.
Events == Len(hist) + (IF pc = "idle" THEN 0 ELSE 1) + faults

NoAttempt ==
    [n |-> 0, auto |-> FALSE, query_ok |-> TRUE, entry |-> 0,
     log_start_ok |-> FALSE,
     load_raised |-> FALSE, fail |-> {}, insert_failures |-> 0,
     duplicates |-> 0,
     loaded |-> 0, failed_at |-> "", dims_done |-> 0, facts_done |-> FALSE,
     end_status |-> "", log_end_ok |-> FALSE, returned |-> NULL]

\* Lines 424-438: resolve the window, take the before-summary, log the start.
\* b is the batch_number argument (NULL: auto-detect); query_ok is whether
\* the MAX(ROW_NUMBER_IN_FILE) query of get_last_processed_row succeeds
\* (it returns 0 when it does not); log_ok is whether the INSERT of
\* log_batch_start succeeds.
Begin(b, query_ok, log_ok) ==
    /\ pc = "idle"
    /\ Events + 1 + Fault(~query_ok) + Fault(~log_ok) <= MaxEvents
    /\ LET n == IF IsNull(b)
                THEN IF query_ok THEN AutoBatchNumber(staging, batch_size)
                     ELSE (0 \div batch_size) + 1
                ELSE Val(b)
           sr == StartRow(n, batch_size)
           er == EndRow(n, batch_size)
       IN /\ batch_number' = n
          /\ start_row' = sr
          /\ end_row' = er
          /\ log' = IF log_ok THEN log_batch_start(log, n, sr, er) ELSE log
          /\ att' = [NoAttempt EXCEPT !.n = n, !.auto = IsNull(b),
                                      !.query_ok = query_ok,
                                      !.entry = IF log_ok THEN Len(log) + 1 ELSE 0,
                                      !.log_start_ok = log_ok]
    /\ before_summary' = get_data_summary(staging, transactions, products,
                                          customers, countries)
    /\ loaded_count' = 0
    /\ pending' = NULL
    /\ result' = NULL
    /\ report' = NULL
    /\ faults' = faults + Fault(~query_ok) + Fault(~log_ok)
    /\ pc' = "load"
    /\ UNCHANGED <<Tables, Env, hist>>

\* Lines 441-446: load_batch_to_staging and the zero-row branch.  raised:
\* an exception before the insert loop (read, clean or dedup query), which
\* the method turns into a return of 0; fail: the rows whose INSERT raises.
LoadBatchToStaging(raised, fail) ==
    /\ pc = "load"
    /\ LET df == IF raised THEN <<>>
                 ELSE Candidates(source, staging, batch_number, batch_size)
           all == Sanitize(ReadCsv(source, start_row, end_row), batch_number,
                           start_row)
           written == InsertRows(df, fail)
       IN /\ fail \subseteq 1..Len(df)
          /\ Events + Fault(raised) + Cardinality(fail) <= MaxEvents
          /\ faults' = faults + Fault(raised) + Cardinality(fail)
          /\ staging' = AppendRows(staging, written)
          /\ loaded_count' = Len(written)
          /\ att' = [att EXCEPT !.load_raised = raised,
                                !.failed_at = IF raised THEN "load" ELSE "",
                                !.loaded = Len(written),
                                !.fail = fail,
                                !.insert_failures = Cardinality(fail),
                                !.duplicates =
                                    IF raised THEN 0 ELSE Len(all) - Len(df)]
          /\ IF Len(written) = 0
             THEN /\ pending' = Some([status |-> "COMPLETED", rows_loaded |-> 0,
                                      error_msg |-> Some("No new data to load"),
                                      returns |-> FALSE])
                  /\ pc' = "log_end"
             ELSE /\ pending' = NULL
                  /\ pc' = "dims"
    /\ UNCHANGED <<products, customers, countries, transactions, log,
                   batch_number, start_row, end_row, before_summary, result,
                   report, Env, hist>>

\* The except branch (lines 474-477): log_batch_end(batch_number, 'FAILED',
\* 0, str(e)) and return False.
FailedRowsLoaded(loaded) == 0

FailedAsCompleted(loaded) ==
    Some([status |-> "COMPLETED", rows_loaded |-> loaded,
          error_msg |-> NULL, returns |-> TRUE])

Failed(loaded) ==
    Some([status |-> "FAILED", rows_loaded |-> FailedRowsLoaded(loaded),
          error_msg |-> Some("error"), returns |-> FALSE])

\* Line 449: update_dimensions_incremental runs four statements in order
\* (products MERGE, customers MERGE, segment UPDATE, countries MERGE) and
\* re-raises the first failure; done is the number of statements that
\* succeed (4: none raises).
NumStatements == 4

UpdateDimensions(done) ==
    /\ pc = "dims"
    /\ Events + Fault(done < NumStatements) <= MaxEvents
    /\ faults' = faults + Fault(done < NumStatements)
    /\ products' = IF done >= 1
                   THEN MergeProducts(products, staging, batch_number, today)
                   ELSE products
    /\ customers' =
          LET merged == IF done >= 2
                        THEN MergeCustomers(customers, staging, batch_number, today)
                        ELSE customers
          IN IF done >= 3 THEN UpdateSegments(merged, today) ELSE merged
    /\ countries' = IF done >= 4
                    THEN MergeCountries(countries, staging, batch_number, today)
                    ELSE countries
    /\ att' = [att EXCEPT !.dims_done = done,
                          !.failed_at = IF done < NumStatements THEN "dims" ELSE ""]
    /\ IF done < NumStatements
       THEN pending' = Failed(loaded_count) /\ pc' = "log_end"
       ELSE pending' = NULL /\ pc' = "facts"
    /\ UNCHANGED <<staging, transactions, log, Locals, result, report, Env,
                   hist>>

AppendToTransactionsFactSwallowingError(ok) ==
    /\ pc = "facts"
    /\ Events + Fault(~ok) <= MaxEvents
    /\ faults' = faults + Fault(~ok)
    /\ transactions' = IF ok THEN AppendRows(transactions,
                                               FactRows(staging, batch_number))
                       ELSE transactions
    /\ att' = [att EXCEPT !.facts_done = ok,
                          !.failed_at = IF ok THEN "" ELSE "facts"]
    /\ pending' = Some([status |-> "COMPLETED", rows_loaded |-> loaded_count,
                        error_msg |-> NULL, returns |-> TRUE])
    /\ pc' = "log_end"
    /\ UNCHANGED <<staging, products, customers, countries, log, Locals,
                   result, report, Env, hist>>

\* Lines 452-455: append_to_transactions_fact; ok is whether the INSERT ...
\* SELECT succeeds.
AppendToTransactionsFact(ok) ==
    /\ pc = "facts"
    /\ Events + Fault(~ok) <= MaxEvents
    /\ faults' = faults + Fault(~ok)
    /\ transactions' = IF ok THEN AppendRows(transactions,
                                               FactRows(staging, batch_number))
                       ELSE transactions
    /\ att' = [att EXCEPT !.facts_done = ok,
                          !.failed_at = IF ok THEN "" ELSE "facts"]
    /\ pending' = IF ok
                  THEN Some([status |-> "COMPLETED", rows_loaded |-> loaded_count,
                             error_msg |-> NULL, returns |-> TRUE])
                  ELSE Failed(loaded_count)
    /\ pc' = "log_end"
    /\ UNCHANGED <<staging, products, customers, countries, log, Locals,
                   result, report, Env, hist>>

ReturnValueUnlessLogFails(returns, log_ok) == returns /\ log_ok

\* log_batch_end catches the exception of its UPDATE (lines 81-82), so the
\* return statement that follows the call is reached whatever log_ok is.
ReturnValue(returns, log_ok) == returns

\* The log_batch_end call of lines 445, 455 or 476 and the return; ok is
\* whether its UPDATE succeeds (a failure is only logged locally).
LogBatchEnd(ok) ==
    /\ pc = "log_end"
    /\ Events + Fault(~ok) <= MaxEvents
    /\ faults' = faults + Fault(~ok)
    /\ LET p == Val(pending)
           done == [att EXCEPT !.end_status = p.status, !.log_end_ok = ok,
                               !.returned = Some(ReturnValue(p.returns, ok))]
       IN /\ log' = IF ok
                    THEN log_batch_end(log, batch_number, p.status,
                                       p.rows_loaded, p.error_msg)
                    ELSE log
          /\ result' = Some(ReturnValue(p.returns, ok))
          /\ att' = done
          /\ hist' = Append(hist, done)
    /\ pending' = NULL
    /\ pc' = "idle"
    /\ UNCHANGED <<Tables, Locals, report, Env>>

\* sys.exit(0 if success else 1) (lines 525-531).
ExitCode(success) == IF success THEN 0 ELSE 1

(***************************************************************************)
(* Specification.                                                          *)
(***************************************************************************)
Init ==
    /\ source \in Sources
    /\ batch_size = BatchSize
    /\ staging = <<>>
    /\ products = <<>>
    /\ customers = <<>>
    /\ countries = <<>>
    /\ transactions = <<>>
    /\ log = <<>>
    /\ pc = "idle"
    /\ batch_number = 0
    /\ start_row = 0
    /\ end_row = 0
    /\ before_summary = get_data_summary(<<>>, <<>>, <<>>, <<>>, <<>>)
    /\ loaded_count = 0
    /\ pending = NULL
    /\ result = NULL
    /\ report = NULL
    /\ inst = <<>>
    /\ today = StartDay
    /\ faults = 0
    /\ att = NoAttempt
    /\ hist = <<>>

Next ==
    \/ \E b \in {NULL} \cup { Some(n) : n \in 1..MaxBatch } :
         \E query_ok \in {TRUE} \cup { q \in {FALSE} : IsNull(b) } :
           \E log_ok \in BOOLEAN : Begin(b, query_ok, log_ok)
    \/ \E raised \in BOOLEAN :
         \E fail \in SUBSET (1..batch_size) : LoadBatchToStaging(raised, fail)
    \/ \E done \in 0..NumStatements : UpdateDimensions(done)
    \/ \E ok \in BOOLEAN : AppendToTransactionsFact(ok)
    \/ \E ok \in BOOLEAN : LogBatchEnd(ok)

Spec == Init /\ [][Next]_vars

(***************************************************************************)
(* The segmentation pass on its own (lines 299-311): a CUSTOMERS row the    *)
(* merge touched today, with a cumulative spend around one of the          *)
(* thresholds, and the UPDATE applied to it any number of times.           *)
(***************************************************************************)
Spends ==
    UNION { (t - SpendMargin)..(t + SpendMargin) :
              t \in {0, MediumValueSpend, HighValueSpend, VipSpend} }

SegInit ==
    /\ source = <<>>
    /\ batch_size = BatchSize
    /\ staging = <<>>
    /\ products = <<>>
    /\ \E s \in Spends :
          customers =
            [c \in {1} |->
               CustomerInserted([country |-> "UK",
                                 first_purchase_date |-> Some(1),
                                 last_purchase_date |-> Some(1),
                                 new_orders |-> 1,
                                 new_items_purchased |-> 1,
                                 new_amount_spent |-> s,
                                 avg_order_value |-> SqlAvg(<<s>>)],
                                InsertedUpdatedAt(StartDay))]
    /\ countries = <<>>
    /\ transactions = <<>>
    /\ log = <<>>
    /\ pc = "dims"
    /\ batch_number = 1
    /\ start_row = StartRow(1, BatchSize)
    /\ end_row = EndRow(1, BatchSize)
    /\ before_summary = get_data_summary(<<>>, <<>>, <<>>, <<>>, <<>>)
    /\ loaded_count = 0
    /\ pending = NULL
    /\ result = NULL
    /\ report = NULL
    /\ inst = <<>>
    /\ today = StartDay
    /\ faults = 0
    /\ att = NoAttempt
    /\ hist = <<>>

\* self.conn.execute_sql(segment_sql) (line 310)
SegmentationPass ==
    /\ pc = "dims"
    /\ customers' = UpdateSegments(customers, today)
    /\ UNCHANGED <<source, batch_size, staging, products, countries,
                   transactions, log, pc, batch_number, start_row, end_row,
                   before_summary, loaded_count, pending, result, report,
                   inst, today, faults, att, hist>>

SegNext == SegmentationPass

SegSpec == SegInit /\ [][SegNext]_vars

(***************************************************************************)
(* The end-to-end scenario: an empty warehouse, an extract of three valid  *)
(* rows, one zero-quantity row and one row with a missing stock code, and  *)
(* a batch size of at least the length of the extract.  The steps are      *)
(* those of run_incremental_batch.                                         *)
(***************************************************************************)
ScenarioSource == <<Invoice(1), Invoice(2), Invoice(3), Invoice(4), Invoice(5)>>

ScenarioInit ==
    /\ source = ScenarioSource
    /\ batch_size \in Len(ScenarioSource)..(Len(ScenarioSource) + 1)
    /\ staging = <<>>
    /\ products = <<>>
    /\ customers = <<>>
    /\ countries = <<>>
    /\ transactions = <<>>
    /\ log = <<>>
    /\ pc = "idle"
    /\ batch_number = 0
    /\ start_row = 0
    /\ end_row = 0
    /\ before_summary = get_data_summary(<<>>, <<>>, <<>>, <<>>, <<>>)
    /\ loaded_count = 0
    /\ pending = NULL
    /\ result = NULL
    /\ report = NULL
    /\ inst = <<>>
    /\ today = StartDay
    /\ faults = 0
    /\ att = NoAttempt
    /\ hist = <<>>

ScenarioSpec == ScenarioInit /\ [][Next]_vars

(***************************************************************************)
(* The status report of main (--status, lines 490-505): the five counts,   *)
(* the last processed row and the next suggested batch, (last_row // 1000) *)
(* + 1 with 1000 the batch size of the pipeline.  query_ok is whether the  *)
(* query of get_last_processed_row succeeds.                               *)
(***************************************************************************)
StatusReport(stg, tx, prod, cust, ctry, last_row, B) ==
    Some([summary |-> get_data_summary(stg, tx, prod, cust, ctry),
          last_row |-> last_row,
          next_batch |-> (last_row \div B) + 1])

StatusWithAuditEntry(query_ok) ==
    /\ pc = "idle"
    /\ Events + Fault(~query_ok) <= MaxEvents
    /\ faults' = faults + Fault(~query_ok)
    /\ report' = StatusReport(staging, transactions, products, customers,
                              countries,
                              IF query_ok THEN get_last_processed_row(staging)
                              ELSE 0,
                              batch_size)
    /\ log' = log_batch_start(log, 0, 0, 0)
    /\ UNCHANGED <<Tables, Locals, pc, pending, result, Env, att, hist>>

Status(query_ok) ==
    /\ pc = "idle"
    /\ Events + Fault(~query_ok) <= MaxEvents
    /\ faults' = faults + Fault(~query_ok)
    /\ report' = StatusReport(staging, transactions, products, customers,
                              countries,
                              IF query_ok THEN get_last_processed_row(staging)
                              ELSE 0,
                              batch_size)
    /\ UNCHANGED <<Tables, log, Locals, pc, pending, result, Env, att, hist>>

StatusNext ==
    \/ Next
    \/ \E query_ok \in BOOLEAN : Status(query_ok)

StatusSpec == Init /\ [][StatusNext]_vars

(***************************************************************************)
(* Two orchestrator instances running run_incremental_batch on the same    *)
(* batch number at the same time.  Each statement sent to the warehouse is *)
(* one step: the dedup query (lines 137-140) reads the keys staged at that *)
(* moment, every row INSERT (line 195) is a statement of its own, and       *)
(* nothing orders the statements of one instance against the other's.      *)
(* No warehouse call fails here.                                           *)
(***************************************************************************)
Instances == 1..NumInstances

ConcurrentInit ==
    /\ source \in Sources
    /\ batch_size = BatchSize
    /\ staging = <<>>
    /\ products = <<>>
    /\ customers = <<>>
    /\ countries = <<>>
    /\ transactions = <<>>
    /\ log = <<>>
    /\ pc = "concurrent"
    /\ batch_number = 1
    /\ start_row = StartRow(1, BatchSize)
    /\ end_row = EndRow(1, BatchSize)
    /\ before_summary = get_data_summary(<<>>, <<>>, <<>>, <<>>, <<>>)
    /\ loaded_count = 0
    /\ pending = NULL
    /\ result = NULL
    /\ report = NULL
    /\ inst = [i \in Instances |-> [pc |-> "start", df |-> <<>>, loaded_count |-> 0]]
    /\ today = StartDay
    /\ faults = 0
    /\ att = NoAttempt
    /\ hist = <<>>

ConcurrentFrame ==
    UNCHANGED <<source, batch_size, pc, batch_number, start_row, end_row,
                before_summary, loaded_count, pending, result, report, today,
                faults, att, hist>>

\* Lines 424-438 of instance i.
InstanceBegin(i) ==
    /\ inst[i].pc = "start"
    /\ log' = log_batch_start(log, batch_number, start_row, end_row)
    /\ inst' = [inst EXCEPT ![i].pc = "dedup"]
    /\ UNCHANGED Tables
    /\ ConcurrentFrame

\* Lines 93-159 of instance i: read, clean, and filter against the keys the
\* dedup query returns now.
InstanceDedup(i) ==
    /\ inst[i].pc = "dedup"
    /\ LET df == Candidates(source, staging, batch_number, batch_size)
       IN inst' = [inst EXCEPT ![i].df = df,
                               ![i].pc = IF df = <<>> THEN "log_end" ELSE "insert"]
    /\ UNCHANGED <<Tables, log>>
    /\ ConcurrentFrame

\* One turn of the insert loop of instance i (lines 163-199).
InstanceInsertRow(i) ==
    /\ inst[i].pc = "insert"
    /\ staging' = AppendRows(staging, <<Head(inst[i].df)>>)
    /\ inst' = [inst EXCEPT ![i].df = Tail(@),
                            ![i].loaded_count = @ + 1,
                            ![i].pc = IF Tail(inst[i].df) = <<>> THEN "dims"
                                      ELSE "insert"]
    /\ UNCHANGED <<products, customers, countries, transactions, log>>
    /\ ConcurrentFrame

\* Line 449 of instance i.
InstanceUpdateDimensions(i) ==
    /\ inst[i].pc = "dims"
    /\ products' = MergeProducts(products, staging, batch_number, today)
    /\ customers' = UpdateSegments(MergeCustomers(customers, staging,
                                                  batch_number, today), today)
    /\ countries' = MergeCountries(countries, staging, batch_number, today)
    /\ inst' = [inst EXCEPT ![i].pc = "facts"]
    /\ UNCHANGED <<staging, transactions, log>>
    /\ ConcurrentFrame

\* Line 452 of instance i.
InstanceAppendFacts(i) ==
    /\ inst[i].pc = "facts"
    /\ transactions' = AppendRows(transactions, FactRows(staging, batch_number))
    /\ inst' = [inst EXCEPT ![i].pc = "log_end"]
    /\ UNCHANGED <<staging, products, customers, countries, log>>
    /\ ConcurrentFrame

\* Lines 445 or 455 of instance i.
InstanceLogBatchEnd(i) ==
    /\ inst[i].pc = "log_end"
    /\ log' = log_batch_end(log, batch_number, "COMPLETED", inst[i].loaded_count,
                            IF inst[i].loaded_count = 0
                            THEN Some("No new data to load") ELSE NULL)
    /\ inst' = [inst EXCEPT ![i].pc = "done"]
    /\ UNCHANGED Tables
    /\ ConcurrentFrame

ConcurrentNext ==
    \E i \in Instances :
        \/ InstanceBegin(i)
        \/ InstanceDedup(i)
        \/ InstanceInsertRow(i)
        \/ InstanceUpdateDimensions(i)
        \/ InstanceAppendFacts(i)
        \/ InstanceLogBatchEnd(i)

ConcurrentSpec == ConcurrentInit /\ [][ConcurrentNext]_vars

(***************************************************************************)
(* The warehouse clock.  CURRENT_TIMESTAMP() of the customers MERGE (line   *)
(* 288) and CURRENT_DATE() of the segment UPDATE (line 309) are evaluated   *)
(* by two separate statements; here the date changes between them.  The    *)
(* runs are those of the end-to-end scenario.                               *)
(***************************************************************************)
UpdateDimensionsOverMidnight(done) ==
    /\ pc = "dims"
    /\ today = StartDay
    /\ done >= 3
    /\ Events + Fault(done < NumStatements) <= MaxEvents
    /\ faults' = faults + Fault(done < NumStatements)
    /\ products' = MergeProducts(products, staging, batch_number, today)
    /\ today' = today + 1
    /\ customers' = UpdateSegments(MergeCustomers(customers, staging,
                                                  batch_number, today),
                                   today')
    /\ countries' = IF done >= 4
                    THEN MergeCountries(countries, staging, batch_number, today')
                    ELSE countries
    /\ att' = [att EXCEPT !.dims_done = done,
                          !.failed_at = IF done < NumStatements THEN "dims" ELSE ""]
    /\ IF done < NumStatements
       THEN pending' = Failed(loaded_count) /\ pc' = "log_end"
       ELSE pending' = NULL /\ pc' = "facts"
    /\ UNCHANGED <<staging, transactions, log, Locals, result, report, source,
                   batch_size, inst, hist>>

ClockNext ==
    \/ Next
    \/ \E done \in 3..NumStatements : UpdateDimensionsOverMidnight(done)

ClockSpec == ScenarioInit /\ [][ClockNext]_vars

(***************************************************************************)
(* Properties.                                                             *)
(***************************************************************************)
Returned == pc = "idle" /\ Len(hist) > 0

\* Staging as it was when the current attempt began (rows are only appended).
StagingAtStart == SubSeq(staging, 1, before_summary.staging)

\* The accepted rows of the current window, as the sanitizer stages them.
WindowRows == Sanitize(ReadCsv(source, start_row, end_row), batch_number, start_row)

\* C1: after any sequence of batch runs and re-runs (any batch numbers, any
\* order, row-level insert failures allowed) no two staging rows have the
\* same synthetic key.
C1_StagingKeysUnique ==
    \A i, j \in 1..Len(staging) :
        i # j => TransactionKey(staging[i]) # TransactionKey(staging[j])

\* A retry of a partially staged batch: the dedup filter removed rows that
\* were already staged and the attempt wrote the remaining ones.
C1_Witness ==
    /\ pc \in {"dims", "facts", "log_end", "idle"}
    /\ att.duplicates > 0
    /\ loaded_count > 0

\* The window of the current attempt was fully staged when the attempt began:
\* it has accepted rows and each of them is already a staging row.
FullyStagedAtStart ==
    /\ WindowRows # <<>>
    /\ Range(WindowRows) \subseteq Range(StagingAtStart)

\* C2: re-running a batch whose window is already fully staged writes no
\* staging row: the load returns 0, the staging row count is unchanged and
\* the attempt's log entry records rows_inserted = 0.
C2_RerunLoadsNothing ==
    (pc # "load" /\ att.n > 0 /\ FullyStagedAtStart) =>
        /\ pc \in {"log_end", "idle"}
        /\ loaded_count = 0
        /\ Len(staging) = before_summary.staging
        /\ (pc = "log_end" => Val(pending).rows_loaded = 0)
        /\ (att.entry > 0 => log[att.entry].rows_inserted = Some(0))
        /\ (pc = "idle" /\ att.entry > 0 /\ att.log_end_ok =>
                log[att.entry].status = "COMPLETED")

\* A finished re-run of a fully staged window whose log entry was closed.
C2_Witness ==
    /\ Returned
    /\ FullyStagedAtStart
    /\ ~att.load_raised
    /\ att.duplicates = Len(WindowRows)
    /\ att.entry > 0
    /\ att.log_end_ok
    /\ log[att.entry].status = "COMPLETED"

\* Sum of the positive quantities of the staged records of product c that
\* batch n staged.
StagedSaleQuantity(c, n) ==
    LET Mine(r) == /\ r.data_source = DataSource(n)
                   /\ Val(r.stock_code) = c
                   /\ IsSale(r)
        rows == SelectSeq(staging, Mine)
    IN SumInts([i \in 1..Len(rows) |-> Val(rows[i].quantity)])

StagedProducts == { Val(staging[i].stock_code) : i \in 1..Len(staging) }

\* Exactly two attempts have run, on different batch numbers, on the
\* initially empty warehouse, and both ran every step successfully.
TwoDisjointBatchesRan ==
    /\ pc = "idle"
    /\ Len(hist) = 2
    /\ hist[1].n # hist[2].n
    /\ hist[1].returned = Some(TRUE)
    /\ hist[2].returned = Some(TRUE)

\* C3: after two disjoint batches run in sequence on an empty warehouse, each
\* product's total_quantity_sold is the sum of the positive quantities of its
\* records in the first batch plus those in the second batch.
C3_QuantityIsSumOfBothBatches ==
    TwoDisjointBatchesRan =>
        \A c \in StagedProducts :
            /\ c \in DOMAIN products
            /\ products[c].total_quantity_sold =
                   StagedSaleQuantity(c, hist[1].n) + StagedSaleQuantity(c, hist[2].n)

\* C4: after any sequence of batch runs and retries the fact store holds no
\* two rows with the same synthetic transaction key.
C4_FactKeysUnique ==
    \A i, j \in 1..Len(transactions) :
        i # j => transactions[i].transaction_id # transactions[j].transaction_id

\* The rows batch n has staged.
StagedBy(n) ==
    LET Mine(r) == r.data_source = DataSource(n)
    IN SelectSeq(staging, Mine)

FactIds == { transactions[i].transaction_id : i \in 1..Len(transactions) }

AllFactsPublished(n) ==
    \A r \in Range(StagedBy(n)) : TransactionKey(r) \in FactIds

AggregatesMerged(n) ==
    \A r \in Range(StagedBy(n)) :
        /\ Val(r.stock_code) \in DOMAIN products
        /\ r.country \in DOMAIN countries
        /\ (IsSale(r) /\ ~IsNull(r.customer_id) =>
                Val(r.customer_id) \in DOMAIN customers)

\* An attempt in which no warehouse call failed.
FaultFree(a) ==
    /\ a.log_start_ok
    /\ ~a.load_raised
    /\ a.insert_failures = 0
    /\ a.failed_at = ""
    /\ a.log_end_ok

\* The last two attempts ran the same batch number: the first staged rows and
\* then failed in dimension aggregation or fact publication, the second
\* (the manual resume) ran without any failure and has returned.
ResumedAfterFailure ==
    /\ pc = "idle"
    /\ Len(hist) >= 2
    /\ LET a == hist[Len(hist) - 1]
           b == hist[Len(hist)]
       IN /\ a.n = b.n
          /\ a.loaded > 0
          /\ a.failed_at \in {"dims", "facts"}
          /\ FaultFree(b)

\* C5: manual resume: once the re-invocation of a batch that had staged its
\* rows and then failed in aggregation or publication has returned, every
\* staged record of the batch has a fact row and the batch's aggregates are
\* merged.
C5_ResumeCompletesBatch ==
    ResumedAfterFailure =>
        AllFactsPublished(batch_number) /\ AggregatesMerged(batch_number)

\* C6: after an auto-detected batch n whose window lies inside the extract
\* completed successfully with all its accepted rows staged, the next
\* auto-detected batch number is greater than n, also when rows of the
\* window were rejected by sanitization.
C6_AutoDetectionAdvances ==
    (/\ pc = "idle"
     /\ att.auto
     /\ result = Some(TRUE)
     /\ att.insert_failures = 0
     /\ end_row <= Len(source)) =>
        AutoBatchNumber(staging, batch_size) > batch_number

Terminal(e) == e.status \in {"COMPLETED", "FAILED"}

\* C7: a log entry only moves RUNNING -> COMPLETED or RUNNING -> FAILED: no
\* step removes an entry, and an entry that is COMPLETED or FAILED keeps its
\* status, rows_inserted and error message through every later step.
C7_TerminalEntriesFrozen ==
    [][\A i \in 1..Len(log) :
          /\ i <= Len(log')
          /\ (Terminal(log[i]) => log'[i] = log[i])
          /\ (log'[i].status # log[i].status =>
                 log[i].status = "RUNNING" /\ Terminal(log'[i]))]_vars

\* A later attempt of the same batch number failed to insert its own entry
\* and then ran its log_batch_end while the latest entry of that batch number
\* was already COMPLETED or FAILED.
C7_Witness ==
    /\ pc = "idle"
    /\ Len(hist) >= 2
    /\ hist[Len(hist)].n = hist[Len(hist) - 1].n
    /\ hist[Len(hist) - 1].entry > 0
    /\ hist[Len(hist) - 1].log_end_ok
    /\ ~hist[Len(hist)].log_start_ok
    /\ hist[Len(hist)].log_end_ok
    /\ Terminal(log[hist[Len(hist) - 1].entry])

\* C8: at every point in time at most one log entry per execution_type is in
\* RUNNING state, also after attempts whose end-of-batch log write failed.
C8_AtMostOneRunning ==
    \A i, j \in 1..Len(log) :
        (/\ i # j
         /\ log[i].execution_type = log[j].execution_type
         /\ log[i].status = "RUNNING") => log[j].status # "RUNNING"

\* C9: when dimension aggregation fails after k rows were staged in the
\* attempt, the attempt's log entry ends FAILED with rows_inserted = k.
C9_FailedEntryRecordsStagedCount ==
    (/\ pc = "idle"
     /\ att.failed_at = "dims"
     /\ att.entry > 0
     /\ att.log_end_ok) =>
        /\ log[att.entry].status = "FAILED"
        /\ log[att.entry].rows_inserted = Some(att.loaded)

\* C10: an exception raised in source reading, sanitizing, dedup, dimension
\* aggregation or fact publication makes the attempt's log entry FAILED with
\* the error message; such an attempt never ends COMPLETED.
C10_ExceptionMarksEntryFailed ==
    (/\ pc = "idle"
     /\ att.failed_at \in {"load", "dims", "facts"}
     /\ att.entry > 0
     /\ att.log_end_ok) =>
        /\ log[att.entry].status = "FAILED"
        /\ log[att.entry].error_message = Some("error")

\* The log writes of the current attempt that were due so far succeeded: its
\* entry was inserted, and its end-of-batch UPDATE ran once it has returned.
LogWritten == att.entry > 0 /\ (pc = "idle" => att.log_end_ok)

\* C11: a step-level failure stops the batch: when one of the product,
\* customer, segmentation or country updates raises, fact publication is not
\* run in the attempt and no fact row is added; when fact publication raises,
\* no fact row is added either; in both cases the entry the attempt wrote is
\* marked FAILED and the orchestrator returns failure.
C11_StepFailureStopsBatch ==
    (pc \in {"log_end", "idle"} /\ att.failed_at \in {"dims", "facts"}) =>
        /\ ~att.facts_done
        /\ (att.failed_at = "dims" => att.dims_done < NumStatements)
        /\ Len(transactions) = before_summary.transactions
        /\ (pc = "log_end" =>
               Val(pending).status = "FAILED" /\ ~Val(pending).returns)
        /\ (pc = "idle" =>
               /\ result = Some(FALSE)
               /\ (LogWritten => log[att.entry].status = "FAILED"))

\* An attempt whose customers MERGE raised after the products MERGE had
\* succeeded has returned and its entry is closed.
C11_Witness ==
    /\ pc = "idle"
    /\ att.failed_at = "dims"
    /\ att.dims_done = 1
    /\ att.loaded > 0
    /\ LogWritten
    /\ log[att.entry].status = "FAILED"
    /\ result = Some(FALSE)

\* C12: when the staging load of an attempt writes zero rows, the entry is
\* COMPLETED with rows_inserted = 0, neither dimension aggregation nor fact
\* publication runs, and the run is not an error: no FAILED state and no
\* failure result (the process exits with 0).
C12_ZeroRowsIsNotAnError ==
    (/\ pc = "idle"
     /\ Len(hist) > 0
     /\ att.loaded = 0
     /\ ~att.load_raised
     /\ att.insert_failures = 0
     /\ LogWritten) =>
        /\ log[att.entry].status = "COMPLETED"
        /\ log[att.entry].rows_inserted = Some(0)
        /\ att.dims_done = 0
        /\ ~att.facts_done
        /\ result = Some(TRUE)
        /\ ExitCode(Val(result)) = 0

\* Attempts begun so far.
Attempts == Len(hist) + (IF pc = "idle" THEN 0 ELSE 1)

\* The attempts that returned before the current one began.
PriorAttempts == IF pc = "idle" THEN SubSeq(hist, 1, Len(hist) - 1) ELSE hist

RECURSIVE WindowsUpTo(_, _, _)
WindowsUpTo(src, k, B) ==
    IF k = 0 THEN <<>>
    ELSE WindowsUpTo(src, k - 1, B) \o ReadCsv(src, StartRow(k, B), EndRow(k, B))

\* C14: for every batch number n >= 1 the resolved window is start_row =
\* (n-1)*B + 1, end_row = n*B: it covers exactly B rows, the window of n+1
\* starts right after the window of n, and the windows of batches 1, 2, ...
\* read every row of the extract exactly once, in order.
C14_WindowsContiguous ==
    /\ att.n > 0 =>
          /\ batch_number >= 1
          /\ start_row = ((batch_number - 1) * batch_size) + 1
          /\ end_row = batch_number * batch_size
          /\ (end_row - start_row) + 1 = batch_size
    /\ \A n \in 1..MaxBatch :
          /\ StartRow(n + 1, batch_size) = EndRow(n, batch_size) + 1
          /\ (EndRow(n, batch_size) - StartRow(n, batch_size)) + 1 = batch_size
    /\ WindowsUpTo(source, MaxBatch, batch_size) = source

\* An explicitly numbered batch is being loaded right after the batch before
\* it returned, and its window holds rows of the extract.
C14_Witness ==
    /\ pc = "load"
    /\ ~att.auto
    /\ Len(hist) >= 1
    /\ batch_number = hist[Len(hist)].n + 1
    /\ ReadCsv(source, start_row, end_row) # <<>>

\* The row ordinals in staging when the current attempt began.
OrdinalsAtStart == { StagingAtStart[i].row_number_in_file : i \in 1..Len(StagingAtStart) }

\* C15: with no batch number given the resolver takes last_row = the maximum
\* row ordinal in staging (0 when staging is empty or the query fails) and
\* resolves batch_number = floor(last_row / B) + 1; on an empty staging store
\* this is batch 1 with rows 1..B.
C15_AutoDetectsFromHighWaterMark ==
    (att.n > 0 /\ att.auto) =>
        LET last_row == IF OrdinalsAtStart = {} \/ ~att.query_ok THEN 0
                        ELSE CHOOSE m \in OrdinalsAtStart :
                                 \A o \in OrdinalsAtStart : o <= m
        IN /\ batch_number = (last_row \div batch_size) + 1
           /\ (StagingAtStart = <<>> =>
                  batch_number = 1 /\ start_row = 1 /\ end_row = batch_size)

\* An auto-detected attempt that found rows in staging and resolved a batch
\* number above 1.
C15_Witness ==
    /\ pc = "load"
    /\ att.auto
    /\ att.query_ok
    /\ StagingAtStart # <<>>
    /\ batch_number >= 2

\* Source records with quantity 0, and the others.
ZeroQuantityRecords ==
    { r \in Range(source) : ~IsNull(r.quantity) /\ Val(r.quantity) = 0 }

OtherRecords == Range(source) \ ZeroQuantityRecords

\* Invoice ids and dates that only zero-quantity records of the extract carry.
ZeroOnlyInvoices ==
    { r.invoice_no : r \in ZeroQuantityRecords } \ { r.invoice_no : r \in OtherRecords }

ZeroOnlyDates ==
    { r.invoice_date : r \in ZeroQuantityRecords } \ { r.invoice_date : r \in OtherRecords }

\* C16: a source record with quantity 0 is rejected at sanitization: after
\* any sequence of batch runs no staging row and no fact row has quantity 0
\* or the invoice of a zero-quantity record, every product, customer and
\* country that has an aggregate occurs on a record of non-zero quantity,
\* and no aggregate date is the date of a zero-quantity record.
C16_ZeroQuantityNeverLoaded ==
    /\ \A i \in 1..Len(staging) :
          /\ Val(staging[i].quantity) # 0
          /\ staging[i].invoice_no \notin ZeroOnlyInvoices
    /\ \A i \in 1..Len(transactions) :
          /\ Val(transactions[i].quantity) # 0
          /\ transactions[i].invoice_no \notin ZeroOnlyInvoices
          /\ transactions[i].transaction_type # "UNKNOWN"
    /\ \A c \in DOMAIN products :
          /\ Some(c) \in { r.stock_code : r \in OtherRecords }
          /\ products[c].first_sale_date \notin ZeroOnlyDates
          /\ products[c].last_sale_date \notin ZeroOnlyDates
    /\ \A c \in DOMAIN customers :
          /\ Some(c) \in { r.customer_id : r \in OtherRecords }
          /\ customers[c].first_purchase_date \notin ZeroOnlyDates
          /\ customers[c].last_purchase_date \notin ZeroOnlyDates
    /\ \A c \in DOMAIN countries :
          /\ c \in { r.country : r \in OtherRecords }
          /\ countries[c].first_order_date \notin ZeroOnlyDates
          /\ countries[c].last_order_date \notin ZeroOnlyDates

\* A batch whose window holds a zero-quantity record next to an accepted one
\* has been staged, aggregated and published.
C16_Witness ==
    /\ pc = "idle"
    /\ result = Some(TRUE)
    /\ Range(ReadCsv(source, start_row, end_row)) \cap ZeroQuantityRecords # {}
    /\ Len(transactions) > 0
    /\ DOMAIN products # {}
    /\ DOMAIN countries # {}

\* Staged rows without a customer id, and the dates only such rows carry.
GuestRows == { r \in Range(staging) : IsNull(r.customer_id) }

GuestOnlyDates ==
    { r.invoice_date : r \in GuestRows }
        \ { r.invoice_date : r \in Range(staging) \ GuestRows }

\* Revenue of the staged sales of country c.
StagedSaleRevenue(c) ==
    LET Mine(r) == r.country = c /\ IsSale(r)
        rows == SelectSeq(staging, Mine)
    IN SumInts([i \in 1..Len(rows) |-> rows[i].total_amount])

\* C17: a record without a customer id is staged with has_missing_customer =
\* true and contributes to no customer aggregate; once a batch has run all
\* its steps, the record is counted in its country's aggregate (revenue and
\* order dates) and, if the batch staged it, published as a fact row with
\* is_guest_purchase = true.
C17_GuestRecordsHandled ==
    /\ \A r \in Range(staging) : r.has_missing_customer_id = IsNull(r.customer_id)
    /\ \A i \in 1..Len(transactions) :
          transactions[i].is_guest_purchase = IsNull(transactions[i].customer_id)
    /\ \A c \in DOMAIN customers :
          /\ Some(c) \in { r.customer_id : r \in Range(staging) \ GuestRows }
          /\ customers[c].first_purchase_date \notin GuestOnlyDates
          /\ customers[c].last_purchase_date \notin GuestOnlyDates
    /\ (pc = "idle" /\ result = Some(TRUE)) =>
          \A r \in GuestRows :
              /\ r.country \in DOMAIN countries
              /\ countries[r.country].total_revenue >= StagedSaleRevenue(r.country)
              /\ countries[r.country].total_orders >= 1
              /\ Val(countries[r.country].first_order_date) <= Val(r.invoice_date)
              /\ Val(countries[r.country].last_order_date) >= Val(r.invoice_date)
              /\ (r.data_source = DataSource(batch_number) =>
                     \E i \in 1..Len(transactions) :
                         /\ transactions[i].transaction_id = TransactionKey(r)
                         /\ transactions[i].is_guest_purchase)

\* A batch that staged a guest sale next to a sale of a known customer has
\* run all its steps.
C17_Witness ==
    /\ pc = "idle"
    /\ result = Some(TRUE)
    /\ \E r \in GuestRows : r.data_source = DataSource(batch_number)
    /\ DOMAIN customers # {}
    /\ \E i \in 1..Len(transactions) : transactions[i].is_guest_purchase

\* C18: the segmentation pass classifies a customer by cumulative spend s as
\* VIP if s >= 10000, HIGH_VALUE if 5000 <= s < 10000, MEDIUM_VALUE if
\* 1000 <= s < 5000, LOW_VALUE if 0 < s < 1000, NEW otherwise, and applying
\* the pass again with the spend unchanged leaves the segment as it is.
C18_SegmentBoundaries ==
    \A c \in DOMAIN customers :
        LET s == customers[c].total_amount_spent
            seg == customers[c].customer_segment
        IN ~IsNull(seg) =>
             /\ (Val(seg) = "VIP") = (s >= 10000)
             /\ (Val(seg) = "HIGH_VALUE") = (5000 <= s /\ s < 10000)
             /\ (Val(seg) = "MEDIUM_VALUE") = (1000 <= s /\ s < 5000)
             /\ (Val(seg) = "LOW_VALUE") = (0 < s /\ s < 1000)
             /\ (Val(seg) = "NEW") = (s <= 0)
             /\ UpdateSegments(customers, today)[c].customer_segment = seg

\* The pass has classified a customer whose spend is exactly a threshold.
C18_Witness ==
    \E c \in DOMAIN customers :
        /\ customers[c].total_amount_spent = 5000
        /\ customers[c].customer_segment = Some("HIGH_VALUE")

IsPrefix(s, t) == Len(s) <= Len(t) /\ SubSeq(t, 1, Len(s)) = s

\* C19: staged records and fact rows are append-only: no step of a
\* successful, zero-row or failed attempt deletes or modifies an existing
\* staging row or fact row; in particular the closing of a FAILED attempt
\* leaves the rows it staged before the failure in staging.
C19_StagingAndFactsAppendOnly ==
    [][/\ IsPrefix(staging, staging')
       /\ IsPrefix(transactions, transactions')
       /\ (pc = "log_end" => staging' = staging /\ transactions' = transactions)]_vars

\* An attempt that staged rows and then failed in aggregation or publication
\* has been closed as FAILED, on top of rows and facts of an earlier attempt,
\* and all of them are still there.
C19_Witness ==
    /\ pc = "idle"
    /\ att.failed_at \in {"dims", "facts"}
    /\ att.loaded > 0
    /\ before_summary.staging > 0
    /\ before_summary.transactions > 0
    /\ Len(staging) = before_summary.staging + att.loaded
    /\ Len(transactions) = before_summary.transactions
    /\ LogWritten
    /\ log[att.entry].status = "FAILED"

\* The run in which every log write succeeds, on the same extract and with
\* the same outcomes of all other warehouse calls: the tables and the result
\* after attempt a, started from the tables t.
LoggedRunStep(t, a) ==
    LET n == IF a.auto
             THEN IF a.query_ok THEN AutoBatchNumber(t.staging, batch_size)
                  ELSE (0 \div batch_size) + 1
             ELSE a.n
        df == IF a.load_raised THEN <<>>
              ELSE Candidates(source, t.staging, n, batch_size)
        stg == AppendRows(t.staging, InsertRows(df, a.fail))
        ran_dims == Len(stg) > Len(t.staging)
        done == IF ran_dims THEN a.dims_done ELSE 0
        merged == IF done >= 2 THEN MergeCustomers(t.customers, stg, n, today)
                  ELSE t.customers
        published == ran_dims /\ done = NumStatements /\ a.facts_done
    IN [staging |-> stg,
        products |-> IF done >= 1 THEN MergeProducts(t.products, stg, n, today)
                     ELSE t.products,
        customers |-> IF done >= 3 THEN UpdateSegments(merged, today) ELSE merged,
        countries |-> IF done >= 4 THEN MergeCountries(t.countries, stg, n, today)
                      ELSE t.countries,
        transactions |-> IF published
                         THEN AppendRows(t.transactions, FactRows(stg, n))
                         ELSE t.transactions,
        result |-> Some(published)]

RECURSIVE LoggedRun(_)
LoggedRun(h) ==
    IF h = <<>>
    THEN [staging |-> <<>>, products |-> <<>>, customers |-> <<>>,
          countries |-> <<>>, transactions |-> <<>>, result |-> NULL]
    ELSE LoggedRunStep(LoggedRun(SubSeq(h, 1, Len(h) - 1)), h[Len(h)])

\* C20: a failure to write the execution log, at batch start or batch end,
\* never changes the batch outcome: the rows staged, the aggregates merged,
\* the facts published and the result returned are those of the run in
\* which the log writes succeed.
C20_LogFailureKeepsOutcome ==
    pc = "idle" =>
        LET t == LoggedRun(hist)
        IN /\ staging = t.staging
           /\ products = t.products
           /\ customers = t.customers
           /\ countries = t.countries
           /\ transactions = t.transactions
           /\ result = t.result

\* An attempt whose log INSERT and log UPDATE both failed staged, merged and
\* published its batch and returned success.
C20_Witness ==
    /\ pc = "idle"
    /\ Len(hist) > 0
    /\ ~att.log_start_ok
    /\ ~att.log_end_ok
    /\ att.loaded > 0
    /\ att.dims_done = NumStatements
    /\ Len(transactions) > before_summary.transactions
    /\ result = Some(TRUE)

\* The accepted rows of the scenario, as batch 1 stages them.
ScenarioRows == Sanitize(ScenarioSource, 1, 1)

\* C21: end-to-end: on an empty warehouse, batch 1 over an extract of 3 valid
\* rows, 1 zero-quantity row and 1 row with a missing stock code, with batch
\* size >= 5 and no failure, leaves a log entry with rows_processed = 5 and
\* rows_inserted = 3, exactly 3 staging rows, exactly 3 fact rows, and
\* aggregates computed from exactly those 3 rows.
C21_EndToEndScenario ==
    (/\ source = ScenarioSource
     /\ batch_size >= Len(ScenarioSource)
     /\ pc = "idle"
     /\ Len(hist) = 1
     /\ att.n = 1
     /\ FaultFree(att)) =>
        /\ Len(log) = 1
        /\ log[1].status = "COMPLETED"
        /\ log[1].rows_inserted = Some(3)
        /\ Len(staging) = 3
        /\ Len(transactions) = 3
        /\ products = MergeProducts(<<>>, ScenarioRows, 1, today)
        /\ customers = UpdateSegments(MergeCustomers(<<>>, ScenarioRows, 1, today), today)
        /\ countries = MergeCountries(<<>>, ScenarioRows, 1, today)
        /\ log[1].rows_processed = 5

\* C22: the status report and the batch-window resolution have no side
\* effects: computing the entity counts, the last processed row and the next
\* suggested batch leaves staging, facts, the three aggregate stores and the
\* execution log unchanged, and the resolution at the start of a batch
\* leaves the five data stores unchanged; the report shows the current
\* counts and the batch after the highest staged ordinal (after row 0 when
\* staging is empty or the query fails).
C22_StatusHasNoSideEffects ==
    [][/\ (pc = "idle" => Tables' = Tables)
       /\ (pc = "idle" /\ pc' = "idle" /\ report' # report) =>
             /\ log' = log
             /\ ~IsNull(report')
             /\ Val(report').summary.staging = Len(staging)
             /\ Val(report').summary.transactions = Len(transactions)
             /\ Val(report').summary.products = Cardinality(DOMAIN products)
             /\ Val(report').summary.customers = Cardinality(DOMAIN customers)
             /\ Val(report').summary.countries = Cardinality(DOMAIN countries)
             /\ \/ Val(report').last_row = 0
                \/ /\ \E i \in 1..Len(staging) :
                          staging[i].row_number_in_file = Val(report').last_row
                   /\ \A i \in 1..Len(staging) :
                          staging[i].row_number_in_file <= Val(report').last_row
             /\ Val(report').next_batch
                    = (Val(report').last_row \div batch_size) + 1]_vars

\* A status report taken on a warehouse that holds staged rows, facts and a
\* log, suggesting a batch after the first.
C22_Witness ==
    /\ pc = "idle"
    /\ ~IsNull(report)
    /\ Val(report).summary.staging > 0
    /\ Val(report).summary.staging = Len(staging)
    /\ Val(report).summary.transactions > 0
    /\ Val(report).next_batch >= 2
    /\ Len(log) > 0

\* C23: when two orchestrator instances run the same batch number at the
\* same time, the staging-level dedup still protects the staging store: no
\* two staged records share a synthetic key.
C23_ConcurrentStagingKeysUnique ==
    (pc = "concurrent") =>
        Cardinality(ExistingKeys(staging)) = Len(staging)

\* The staged records tagged with the provenance of the current batch.
BatchRows == { r \in Range(staging) : r.data_source = DataSource(batch_number) }

\* C24: dimension aggregation for batch n computes its deltas only from the
\* staged records tagged with batch n's provenance: a product, customer or
\* country without a record in batch n keeps its additive aggregate fields
\* (quantity, revenue, orders, amount spent, customer counts) through the
\* aggregation step of batch n.
C24_OnlyBatchRowsAggregated ==
    [][(pc = "dims") =>
         /\ \A c \in DOMAIN products :
               (\A r \in BatchRows : r.stock_code # Some(c)) =>
                   /\ products'[c].total_quantity_sold = products[c].total_quantity_sold
                   /\ products'[c].total_revenue = products[c].total_revenue
         /\ \A c \in DOMAIN customers :
               (\A r \in BatchRows : r.customer_id # Some(c)) =>
                   /\ customers'[c].total_orders = customers[c].total_orders
                   /\ customers'[c].total_items_purchased
                          = customers[c].total_items_purchased
                   /\ customers'[c].total_amount_spent
                          = customers[c].total_amount_spent
         /\ \A c \in DOMAIN countries :
               (\A r \in BatchRows : r.country # c) =>
                   /\ countries'[c].total_customers = countries[c].total_customers
                   /\ countries'[c].total_orders = countries[c].total_orders
                   /\ countries'[c].total_revenue = countries[c].total_revenue]_vars

\* Staged row r carries the fields of source record s.
StagedFrom(r, s) ==
    /\ r.invoice_no = s.invoice_no
    /\ r.stock_code = s.stock_code
    /\ r.quantity = s.quantity
    /\ r.unit_price = s.unit_price
    /\ r.customer_id = s.customer_id
    /\ r.country = s.country
    /\ r.invoice_date = s.invoice_date

\* C25: the row ordinal stored with each staged record is the ordinal of the
\* source row it was read from, inside the window of its batch, also when
\* earlier rows of the window were rejected by sanitization.
C25_OrdinalIsSourceRow ==
    \A r \in Range(staging) :
        LET o == r.row_number_in_file
        IN /\ o \in 1..Len(source)
           /\ StagedFrom(r, source[o])
           /\ \E n \in 1..MaxBatch :
                 /\ r.data_source = DataSource(n)
                 /\ StartRow(n, batch_size) <= o
                 /\ o <= EndRow(n, batch_size)

\* The frame that reached the insert loop of the current attempt, and the
\* rows the attempt has added to staging.
CandidatesAtStart == DedupFilter(WindowRows, StagingAtStart)

RowsWritten == SubSeq(staging, before_summary.staging + 1, Len(staging))

\* C26: a failed individual staging insert is absorbed: every other row of
\* the frame is still written, the batch goes on to aggregation and
\* publication when at least one row was written, and on success the entry
\* is COMPLETED with rows_inserted = the number of rows actually written to
\* staging in the attempt, not the number of candidates.
C26_InsertFailureAbsorbed ==
    (att.n > 0 /\ pc # "load" /\ att.insert_failures > 0) =>
        /\ Range(RowsWritten)
              = { CandidatesAtStart[i] : i \in (1..Len(CandidatesAtStart)) \ att.fail }
        /\ Len(RowsWritten) = Len(CandidatesAtStart) - att.insert_failures
        /\ att.loaded = Len(RowsWritten)
        /\ (att.loaded > 0 /\ pc \in {"log_end", "idle"} /\ att.failed_at = "" =>
               att.dims_done = NumStatements /\ att.facts_done)
        /\ (att.loaded > 0 /\ pc = "idle" /\ att.failed_at = "" =>
               /\ result = Some(TRUE)
               /\ (LogWritten =>
                      /\ log[att.entry].status = "COMPLETED"
                      /\ log[att.entry].rows_inserted = Some(Len(RowsWritten))))

\* An attempt with two candidates whose first INSERT failed wrote the second
\* row, ran aggregation and publication and closed its entry with 1.
C26_Witness ==
    /\ pc = "idle"
    /\ att.fail = {1}
    /\ Len(CandidatesAtStart) = 2
    /\ RowsWritten = <<CandidatesAtStart[2]>>
    /\ result = Some(TRUE)
    /\ LogWritten
    /\ log[att.entry].rows_inserted = Some(1)

\* C27: after every successful batch run, every customer aggregate in the
\* store has a segment equal to the threshold function of its current
\* cumulative spend.
C27_SegmentsCurrentAfterSuccess ==
    (Returned /\ result = Some(TRUE)) =>
        \A c \in DOMAIN customers :
            customers[c].customer_segment
                = Some(CustomerSegment(customers[c].total_amount_spent))

\* The staged positive-quantity records of product c.
StagedSalesOf(c) ==
    { r \in Range(staging) : /\ ~IsNull(r.stock_code)
                             /\ Val(r.stock_code) = c
                             /\ IsSale(r) }

\* C28: after any sequence of batch runs, a product's min (max) unit price
\* is the minimum (maximum) unit price over all of its staged
\* positive-quantity records and its first (last) sale date the earliest
\* (latest) of them.  Stated for runs in which no warehouse call failed and
\* every batch that staged rows was merged.
C28_ProductExtremesOverStagedSales ==
    (/\ Returned
     /\ \A k \in 1..Len(hist) : FaultFree(hist[k])) =>
        \A c \in DOMAIN products :
            LET sales == StagedSalesOf(c)
            IN sales # {} =>
                 /\ products[c].min_unit_price
                       = Some(SetMin({ Val(r.unit_price) : r \in sales }))
                 /\ products[c].max_unit_price
                       = Some(SetMax({ Val(r.unit_price) : r \in sales }))
                 /\ products[c].first_sale_date
                       = Some(SetMin({ Val(r.invoice_date) : r \in sales }))
                 /\ products[c].last_sale_date
                       = Some(SetMax({ Val(r.invoice_date) : r \in sales }))

\* The entries that a step has written as COMPLETED with a positive
\* rows_inserted.
NewlyCompleted ==
    { i \in 1..Len(log') :
        /\ log'[i].status = "COMPLETED"
        /\ ~IsNull(log'[i].rows_inserted)
        /\ Val(log'[i].rows_inserted) > 0
        /\ (i > Len(log) \/ log[i] # log'[i]) }

\* C29: within one attempt the staging load precedes dimension aggregation,
\* which precedes fact publication, which precedes the COMPLETED log update;
\* so an entry is written COMPLETED with rows_inserted > 0 only by an attempt
\* in which the staging load wrote that many rows and all the dimension
\* statements and the fact publication ran to completion.
C29_StepsInOrder ==
    [][/\ (pc' = "dims" /\ pc # "dims") => pc = "load" /\ att'.loaded > 0
       /\ (pc' = "facts" /\ pc # "facts") =>
              /\ pc = "dims"
              /\ att'.dims_done = NumStatements
              /\ staging' = staging
       /\ (pc' = "log_end" /\ pc = "facts") =>
              /\ att'.dims_done = NumStatements
              /\ staging' = staging /\ products' = products
              /\ customers' = customers /\ countries' = countries
       /\ NewlyCompleted # {} =>
              /\ pc = "log_end" /\ pc' = "idle"
              /\ att'.dims_done = NumStatements
              /\ att'.facts_done
              /\ att'.failed_at = ""
              /\ <<Tables>>' = <<Tables>>
              /\ \A i \in NewlyCompleted :
                    log'[i].rows_inserted = Some(att'.loaded)]_vars

\* An attempt that staged rows, ran the four dimension statements and the
\* fact publication, has closed its entry as COMPLETED with its row count.
C29_Witness ==
    /\ pc = "idle"
    /\ LogWritten
    /\ att.loaded > 0
    /\ att.dims_done = NumStatements /\ att.facts_done
    /\ Len(transactions) > before_summary.transactions
    /\ log[att.entry].status = "COMPLETED"
    /\ log[att.entry].rows_inserted = Some(att.loaded)

\* C30: re-running a batch number whose window is already fully staged leaves
\* the product, customer and country aggregates and the fact store exactly
\* as they were: no step of the re-run changes them, and the load is
\* followed directly by the log update, without aggregation or publication.
C30_FullRerunLeavesStoresUnchanged ==
    [][(pc # "idle" /\ att.n > 0 /\ FullyStagedAtStart) =>
          /\ products' = products
          /\ customers' = customers
          /\ countries' = countries
          /\ transactions' = transactions
          /\ pc' \in {"log_end", "idle"}
          /\ att'.dims_done = 0 /\ ~att'.facts_done]_vars

\* A batch that was aggregated and published has been run a second time:
\* every row of its window was a duplicate and the run has returned.
C30_Witness ==
    /\ Returned
    /\ Len(hist) = 2
    /\ hist[1].n = hist[2].n
    /\ hist[1].returned = Some(TRUE)
    /\ FullyStagedAtStart
    /\ hist[2].duplicates = Len(WindowRows)
    /\ DOMAIN products # {}
    /\ transactions # <<>>
    /\ Len(transactions) = before_summary.transactions

====
